---- MODULE Spec2Model ----
(***************************************************************************)
(* A model of the react-express-docker scaffold:                           *)
(*   - the API service (server/index.js): express.json(), cors() and the   *)
(*     one route GET /api/message;                                         *)
(*   - the client (client/src/main.jsx, client/src/App.jsx): the mount,    *)
(*     the message state and the fetch promise chain of the App component; *)
(*   - the two routers in front of the API service: the Vite dev server's  *)
(*     proxy (client/vite.config.js) and nginx (client/nginx.conf), with   *)
(*     the port mappings of docker-compose.yml.                            *)
(* JSON text is a sequence of tokens; JSON.stringify and JSON.parse are    *)
(* computed on it, so a payload is compared byte for byte (token for       *)
(* token) and a body that does not parse is told from one that does.       *)
(***************************************************************************)
EXTENDS Integers, Sequences, FiniteSets, TLC

VARIABLES
    responses,     \* API service: the exchanges served so far, in order
    message,       \* App: the message state (a JavaScript value)
    display,       \* App: which handler last set message: Pending, Loaded, Failed
    pc,            \* App: position of the fetch promise chain
    res,           \* App: the Response the fetch resolved with
    data,          \* App: the value res.json() resolved with
    err,           \* App: the message of the error travelling down the chain
    thrownBy,      \* App: the step of the chain that raised err, "" when none did
    effectPending, \* React: an effect of the committed render is still to run
    dirty,         \* React: a state update waits for its re-render
    dom,           \* React: what the <strong> element shows
    renders,       \* number of renders of App after the mount render
    fetchCount,    \* number of fetch() calls issued
    setCount,      \* number of setMessage() calls made
    jsonCalled,    \* res.json() was called on the response
    inflight,      \* API service: the requests accepted and not yet answered
    context,       \* "dev" (npm start, npm run dev) or "docker" (docker compose up)
    files,         \* the files under the router's static root
    portEnv,       \* the PORT environment variable of the API service's process
    listenPort,    \* the port the API service listens on, 0 before app.listen
    routed         \* the last exchange a browser had with a port of localhost

vars == <<responses, message, display, pc, res, data, err, thrownBy,
          effectPending, dirty, dom, renders, fetchCount, setCount, jsonCalled,
          inflight, context, files, portEnv, listenPort, routed>>

apiVars == <<responses>>

clientVars == <<message, display, pc, res, data, err, thrownBy, effectPending,
                dirty, dom, renders, fetchCount, setCount, jsonCalled>>

deployVars == <<context, files, portEnv, listenPort, routed>>

----------------------------------------------------------------------------
(* Bounds of the model *)

\* exchanges the API service's log holds
MaxRequests == 3

\* renders of the App component after the mount render
MaxRenders == 2

\* requests the API service has accepted and not yet answered
MaxInflight == 2

----------------------------------------------------------------------------
(* JavaScript values *)

JsUndefined == [t |-> "undefined", v |-> ""]

JsNull == [t |-> "null", v |-> ""]

JsString(s) == [t |-> "string", v |-> s]

\* a number, by its decimal text
JsNumber(s) == [t |-> "number", v |-> s]

\* an object: its properties in insertion order, each [key, val]
JsObject(props) == [t |-> "object", v |-> props]

Prop(k, x) == [key |-> k, val |-> x]

RECURSIVE Lookup(_, _, _)
\* the value of the last property named k among props[1..n], else undefined
Lookup(props, k, n) ==
    IF n = 0 THEN JsUndefined
    ELSE IF props[n].key = k THEN props[n].val
    ELSE Lookup(props, k, n - 1)

\* the value itself in place of its property
GetPropertyWhole(x, k) == x

\* x.k for a value x that is neither null nor undefined: a property of an
\* object, undefined on a primitive
GetProperty(x, k) ==
    IF x.t = "object" THEN Lookup(x.v, k, Len(x.v)) ELSE JsUndefined

----------------------------------------------------------------------------
(* JSON text, as tokens *)

Punct(c) == [k |-> "punct", v |-> c]

Str(s) == [k |-> "str", v |-> s]

Num(s) == [k |-> "num", v |-> s]

Lit(s) == [k |-> "lit", v |-> s]

\* text that is no JSON token, such as the start of an HTML document
Raw(s) == [k |-> "raw", v |-> s]

RECURSIVE StringifyProps(_, _)
RECURSIVE JSONStringify(_)

\* the members of an object from property i on, comma separated
StringifyProps(props, i) ==
    IF i > Len(props) THEN <<>>
    ELSE (IF i > 1 THEN <<Punct(",")>> ELSE <<>>)
         \o <<Str(props[i].key), Punct(":")>>
         \o JSONStringify(props[i].val)
         \o StringifyProps(props, i + 1)

\* JSON.stringify
JSONStringify(x) ==
    CASE x.t = "string" -> <<Str(x.v)>>
      [] x.t = "number" -> <<Num(x.v)>>
      [] x.t = "null"   -> <<Lit("null")>>
      [] x.t = "object" -> <<Punct("{")>> \o StringifyProps(x.v, 1) \o <<Punct("}")>>
      [] OTHER          -> <<>>

ParseFail == [ok |-> FALSE, val |-> JsUndefined, rest |-> <<>>]

ParseOk(x, rest) == [ok |-> TRUE, val |-> x, rest |-> rest]

RECURSIVE ParseValue(_)
RECURSIVE ParseMembers(_, _)

\* one JSON value at the head of toks
ParseValue(toks) ==
    IF toks = <<>> THEN ParseFail
    ELSE LET h == Head(toks) IN
         CASE h.k = "str" -> ParseOk(JsString(h.v), Tail(toks))
           [] h.k = "num" -> ParseOk(JsNumber(h.v), Tail(toks))
           [] h = Lit("null") -> ParseOk(JsNull, Tail(toks))
           [] h = Punct("{") ->
                IF Len(toks) >= 2 /\ toks[2] = Punct("}")
                THEN ParseOk(JsObject(<<>>), SubSeq(toks, 3, Len(toks)))
                ELSE ParseMembers(Tail(toks), <<>>)
           [] OTHER -> ParseFail

\* the members of an object and its closing brace; acc holds those read
ParseMembers(toks, acc) ==
    IF Len(toks) < 3 \/ toks[1].k # "str" \/ toks[2] # Punct(":") THEN ParseFail
    ELSE LET x == ParseValue(SubSeq(toks, 3, Len(toks))) IN
         IF ~x.ok \/ x.rest = <<>> THEN ParseFail
         ELSE LET props == Append(acc, Prop(toks[1].v, x.val)) IN
              CASE Head(x.rest) = Punct("}") -> ParseOk(JsObject(props), Tail(x.rest))
                [] Head(x.rest) = Punct(",") -> ParseMembers(Tail(x.rest), props)
                [] OTHER -> ParseFail

\* a parse that yields an empty object where the text is no JSON
JSONParseLenient(toks) ==
    LET x == ParseValue(toks) IN
    IF x.ok /\ x.rest = <<>> THEN [ok |-> TRUE, val |-> x.val]
    ELSE [ok |-> TRUE, val |-> JsObject(<<>>)]

\* JSON.parse: the whole text is one value, or the parse fails
JSONParse(toks) ==
    LET x == ParseValue(toks) IN
    IF x.ok /\ x.rest = <<>> THEN [ok |-> TRUE, val |-> x.val]
    ELSE [ok |-> FALSE, val |-> JsUndefined]

----------------------------------------------------------------------------
(* The API service: server/index.js *)

\* the status of res.json() when no status was set
StatusOK == 200

\* cors(): optionsSuccessStatus of a preflight
StatusNoContent == 204

\* body-parser: the body is not the JSON it is declared to be
StatusBadRequest == 400

\* Express: no route matched
StatusNotFound == 404

\* body-parser: the declared length is over the limit
StatusTooLarge == 413

\* express.json(): the default limit, 100kb
JsonLimit == 102400

\* a service whose greeting is the client's placeholder
GreetingPlaceholder == "loading..."

Greeting == "Hello from chaicode server"

\* a handler that keeps state: its payload tells a first request from a later one
MessagePayloadCounting ==
    JsObject(<<Prop("message",
                    JsString(IF responses = <<>> THEN Greeting ELSE "Hello again"))>>)

\* a handler that builds its payload in a buffer all requests share: cut short
\* when another request is in flight
MessagePayloadShared ==
    JsObject(<<Prop("message",
                    JsString(IF Len(inflight) > 1 THEN "Hello" ELSE Greeting))>>)

\* the object literal the route hands to res.json()
MessagePayload == JsObject(<<Prop("message", JsString(Greeting))>>)

\* a request: framed is TRUE when a Content-Length or Transfer-Encoding header
\* announces a body of `length` bytes, whose text is `body`
Request(method, path, query, origin, contentType, framed, length, body) ==
    [method |-> method, path |-> path, query |-> query, origin |-> origin,
     contentType |-> contentType, framed |-> framed, length |-> length,
     body |-> body]

Response(status, contentType, acao, body) ==
    [status |-> status, contentType |-> contentType, acao |-> acao, body |-> body]

HtmlText == <<Raw("<!DOCTYPE html>")>>

\* a JSON middleware that parses every body, whatever its declared type
ExpressJsonAnyType(req) ==
    IF ~req.framed THEN "next"
    ELSE IF req.length > JsonLimit THEN "tooLarge"
    ELSE IF req.length = 0 THEN "next"
    ELSE IF Head(req.body) # Punct("{") THEN "badRequest"
    ELSE IF JSONParse(req.body).ok THEN "next" ELSE "badRequest"

\* express.json(): "next" when the request passes on to the next middleware,
\* else the error it raises.  A request with no body, or with a body that is
\* not declared application/json, passes unread.
ExpressJson(req) ==
    IF ~req.framed \/ req.contentType # "application/json" THEN "next"
    ELSE IF req.length > JsonLimit THEN "tooLarge"
    ELSE IF req.length = 0 THEN "next"
    ELSE IF Head(req.body) # Punct("{") THEN "badRequest"
    ELSE IF JSONParse(req.body).ok THEN "next" ELSE "badRequest"

\* cors({ origin: "http://localhost:3000" }): one origin is allowed
CorsAllowOneOrigin(req) ==
    IF req.origin \in {"", "http://localhost:3000"} THEN "*" ELSE ""

\* cors() with its defaults: every origin is allowed; a preflight (OPTIONS) is
\* answered by the middleware itself, any other request passes on
CorsAllowOrigin(req) == "*"

CorsEndsRequest(req) == req.method = "OPTIONS"

\* Express matches a route path without regard to case or to one trailing slash
PathMatches(path, route) ==
    \/ path = route
    \/ path = route \o "/"
    \/ route = "/api/message" /\ path = "/API/Message"

\* app.all(route, ...): a route for every verb
GetRouteAnyMethod(req, route) == PathMatches(req.path, route)

\* app.get(route, ...) handles GET, and HEAD for want of a HEAD route
GetRouteMatches(req, route) ==
    /\ req.method \in {"GET", "HEAD"}
    /\ PathMatches(req.path, route)

\* the bytes Node writes for a body: none in answer to HEAD
WrittenBody(req, body) == IF req.method = "HEAD" THEN <<>> ELSE body

\* res.json(obj)
ResJson(req, obj) ==
    Response(StatusOK, "application/json", CorsAllowOrigin(req),
             WrittenBody(req, JSONStringify(obj)))

\* Express's default error handler and its final 404 handler
ErrorResponse(req, status, acao) ==
    Response(status, "text/html", acao, WrittenBody(req, HtmlText))

\* the application: the middleware and the route in the order they are installed
App(req) ==
    LET parsed == ExpressJson(req) IN
    CASE parsed = "badRequest" -> ErrorResponse(req, StatusBadRequest, "")
      [] parsed = "tooLarge" -> ErrorResponse(req, StatusTooLarge, "")
      [] OTHER ->
           IF CorsEndsRequest(req)
           THEN Response(StatusNoContent, "", CorsAllowOrigin(req), <<>>)
           ELSE IF GetRouteMatches(req, "/api/message")
           THEN ResJson(req, MessagePayload)
           ELSE ErrorResponse(req, StatusNotFound, CorsAllowOrigin(req))

\* the bodies a request may carry, each [contentType, framed, length, body]
NoBody == <<"", FALSE, 0, <<>>>>

RequestBodies ==
    { NoBody,
      <<"application/json", TRUE, 0, <<>>>>,
      <<"application/json", TRUE, 2, <<Punct("{"), Punct("}")>>>>,
      <<"application/json", TRUE, 1, <<Punct("{")>>>>,
      <<"application/json", TRUE, 4, <<Lit("null")>>>>,
      <<"application/json", TRUE, JsonLimit + 1, <<Punct("{"), Punct("}")>>>>,
      <<"text/plain", TRUE, 1, <<Punct("{")>>>> }

WithBody(method, path, query, origin, b) ==
    Request(method, path, query, origin, b[1], b[2], b[3], b[4])

\* the requests that reach the API service in the model
Requests ==
    { WithBody(m, p, "", "", NoBody) :
        m \in {"GET", "HEAD", "POST", "OPTIONS"},
        p \in {"/api/message", "/api/message/", "/API/Message", "/api/other"} }
    \cup { WithBody(m, "/api/message", "", "", b) :
             m \in {"GET", "POST"}, b \in RequestBodies }
    \cup { WithBody("GET", "/api/message", q, o, NoBody) :
             q \in {"", "x=1"}, o \in {"", "http://evil.example"} }

\* the API service answers one request
ApiHandle(req) ==
    /\ Len(responses) < MaxRequests
    /\ responses' = Append(responses, [req |-> req, res |-> App(req)])
    /\ UNCHANGED <<clientVars, inflight, deployVars>>

----------------------------------------------------------------------------
(* The client: client/src/App.jsx *)

\* a state that starts empty
PlaceholderEmpty == ""

\* useState("loading...")
Placeholder == "loading..."

\* a catch handler that shows the bare error message
FailPrefixMissing == ""

\* the prefix the catch handler puts before the error message
FailPrefix == "Failed to fetch message: "

\* fetch("/api/message"): a GET with no body
ClientRequest == WithBody("GET", "/api/message", "", "", NoBody)

\* what the client reads of a response
ClientResponse(status, body) == [status |-> status, body |-> body]

NoResponse == ClientResponse(0, <<>>)

\* an error that names no status
HttpErrorMessageBare(r) == "HTTP error!"

\* new Error(`HTTP error! status: ${res.status}`)
HttpErrorMessage(r) == "HTTP error! status: " \o ToString(r.status)

\* a chain that never looks at the status
ResOkUnchecked(r) == TRUE

\* Response.ok: a status in 200..299
ResOk(r) == r.status >= 200 /\ r.status <= 299

\* the bodies a response may carry
ResponseBodies ==
    { JSONStringify(MessagePayload),
      JSONStringify(JsObject(<<Prop("status", JsString("ok")),
                               Prop("message", JsString(Greeting))>>)),
      JSONStringify(JsObject(<<>>)),
      JSONStringify(JsObject(<<Prop("message", JsNumber("42"))>>)),
      JSONStringify(JsObject(<<Prop("message", JsObject(<<>>))>>)),
      JSONStringify(JsNull),
      JSONStringify(JsString(Greeting)),
      <<Punct("{"), Str("message"), Punct(":")>>,
      HtmlText,
      <<>> }

\* the responses the fetch may resolve with: the API service's own answer to
\* the client's request among them
ClientResponses ==
    { ClientResponse(st, b) : st \in {200, 404, 500, 502}, b \in ResponseBodies }
    \cup { ClientResponse(App(ClientRequest).status, App(ClientRequest).body) }

\* the messages of the TypeError a failed network call rejects with
NetworkErrors == {"Failed to fetch", "NetworkError when attempting to fetch resource."}

\* the message of the SyntaxError res.json() rejects with
SyntaxErrorMessage(body) ==
    IF body = <<>> THEN "Unexpected end of JSON input"
    ELSE "Unexpected token in JSON"

NullReadMessage == "Cannot read properties of null (reading 'message')"

\* useEffect without a dependency array: the effect runs after every render
EffectRunsEveryRender(isMount) == TRUE

\* useEffect(..., []): the effect runs after the mount render and after no other
EffectRuns(isMount) == isMount

\* fetch(...).then(a).then(b): a chain without its .catch
NoCatch(from) == "unhandled"

\* fetch(...).then(a).catch(c).then(b): an error raised in b has no handler
CatchBeforeSecondThen(from) == IF from = "then2" THEN "unhandled" ELSE "catch"

\* fetch(...).then(a).then(b).catch(c): where a rejection raised at a step of
\* the chain is handled
OnRejected(from) == "catch"

\* {message} as a child of <strong>: a string or a number is text, null and
\* undefined render nothing, an object makes the render throw, which unmounts
\* the root for want of an error boundary
RenderChild(x) ==
    CASE x.t \in {"string", "number"} -> [t |-> "text", v |-> x.v]
      [] x.t \in {"null", "undefined"} -> [t |-> "text", v |-> ""]
      [] OTHER -> [t |-> "unmounted", v |-> ""]

\* a setMessage that also writes the state of a component that is gone
SetMessageUnmounted(x, shown) ==
    /\ message' = x
    /\ display' = shown
    /\ dirty' = (dirty \/ x # message)
    /\ setCount' = setCount + 1

\* setMessage(x): the state is replaced, and an equal state asks for no
\* re-render; React drops the update of a component that is unmounted
SetMessage(x, shown) ==
    IF dom.t = "unmounted"
    THEN /\ setCount' = setCount + 1
         /\ UNCHANGED <<message, display, dirty>>
    ELSE /\ message' = x
         /\ display' = shown
         /\ dirty' = (dirty \/ x # message)
         /\ setCount' = setCount + 1

\* a step of the chain raises an error with message e
Throw(from, e) ==
    /\ err' = e
    /\ thrownBy' = from
    /\ pc' = OnRejected(from)

----------------------------------------------------------------------------
(* Request paths, as chunks of text: "/api/message" is <<"/", "api", "/",   *)
(* "message">> and "/apiary" is <<"/", "api", "ary">>, so that a prefix of  *)
(* the text is a prefix of the chunks                                        *)

RECURSIVE PathString(_)
\* the text of a path
PathString(p) == IF p = <<>> THEN "" ELSE Head(p) \o PathString(Tail(p))

\* String.startsWith, and nginx's prefix match of a location
StartsWith(p, prefix) ==
    Len(prefix) <= Len(p) /\ SubSeq(p, 1, Len(prefix)) = prefix

\* what is left of p after its first n chunks
DropFirst(p, n) == SubSeq(p, n + 1, Len(p))

RootPath == <<"/">>

IndexPath == <<"/", "index.html">>

\* fetch("/api/message")
MessagePath == <<"/", "api", "/", "message">>

\* a request with no body for a path given in chunks
PathRequest(method, path) == WithBody(method, path, "", "", NoBody)

----------------------------------------------------------------------------
(* The API service's port: server/index.js *)

\* the default of process.env.PORT || 4000
DefaultPort == 4000

PortUnset == [set |-> FALSE, val |-> ""]

PortSet(text) == [set |-> TRUE, val |-> text]

\* the values PORT takes in the model
PortEnvs == {PortUnset, PortSet(""), PortSet("4000"), PortSet("5000")}

\* the port number a decimal string names, as app.listen reads it
PortNumber(text) ==
    CASE text = "4000" -> 4000
      [] text = "5000" -> 5000
      [] OTHER -> 0

\* a server that ignores PORT
ConfiguredPortFixed(env) == DefaultPort

\* process.env.PORT || 4000: an unset or empty PORT is falsy
ConfiguredPort(env) ==
    IF env.set /\ env.val # "" THEN PortNumber(env.val) ELSE DefaultPort

----------------------------------------------------------------------------
(* The static root of a router *)

\* vite build: dist/, copied to /usr/share/nginx/html
BuiltFiles == {IndexPath, <<"/", "assets", "/", "index.js">>}

\* the Vite dev server's root: client/
SourceFiles == {IndexPath, <<"/", "src", "/", "main.jsx">>,
                <<"/", "src", "/", "App.jsx">>}

\* files a project may add under client/public: served at the root by both
PublicFiles == {<<"/", "api", "/", "message">>, <<"/", "docs", "/", "index.html">>}

\* the static roots of a context
FileSets(ctx) ==
    { (IF ctx = "docker" THEN BuiltFiles ELSE SourceFiles) \cup extra :
        extra \in SUBSET PublicFiles }

\* the directories of a set of files, each with its trailing slash
Dirs(fs) ==
    UNION { { SubSeq(f, 1, i) : i \in { j \in 1..(Len(f) - 1) : f[j] = "/" } } :
            f \in fs }

\* the body of a static file
FileBody(path) ==
    IF path[Len(path)] = "index.html" THEN HtmlText ELSE <<Raw("file")>>

\* what a router decided for a path: the action and the path it applies to
Routing(action, path) == [action |-> action, path |-> path]

----------------------------------------------------------------------------
(* The deployed router: client/nginx.conf *)

\* listen 80
NginxListen == 80

\* proxy_pass http://backend:4000/api/ : the port
NginxProxyPort == 4000

\* proxy_pass http://backend:4000/ : the location prefix is cut off
NginxProxyUriRoot == <<"/">>

\* proxy_pass http://backend:4000/api/ : the URI part
NginxProxyUri == <<"/", "api", "/">>

\* location /api/
NginxApiLocation == <<"/", "api", "/">>

\* the prefix locations of the server block, in the order they are written
NginxLocations == <<RootPath, NginxApiLocation>>

\* the first location, in the order written, whose prefix matches
FirstPrefix(path, locs) ==
    locs[CHOOSE i \in DOMAIN locs :
            /\ StartsWith(path, locs[i])
            /\ \A j \in DOMAIN locs : StartsWith(path, locs[j]) => i <= j]

\* nginx picks the prefix location with the longest matching prefix, wherever
\* it is written
LongestPrefix(path, locs) ==
    locs[CHOOSE i \in DOMAIN locs :
            /\ StartsWith(path, locs[i])
            /\ \A j \in DOMAIN locs :
                 StartsWith(path, locs[j]) => Len(locs[j]) <= Len(locs[i])]

\* proxy_pass with a URI part: the part of the path that matched the location
\* is replaced by that URI
NginxUpstreamPath(path, uri) == uri \o DropFirst(path, Len(NginxApiLocation))

\* try_files $uri $uri/ =404
TryFilesNoFallback(path, fs) ==
    CASE path \in fs -> Routing("static", path)
      [] path \in Dirs(fs) /\ path \o <<"index.html">> \in fs ->
           Routing("index", path \o <<"index.html">>)
      [] OTHER -> Routing("error", path)

\* try_files $uri $uri/ /index.html, with index index.html: the file at the
\* path; else for a directory its index.html, 403 when it has none, and a
\* redirect to the path with a slash when it lacks one; else /index.html
TryFiles(path, fs) ==
    CASE path \in fs -> Routing("static", path)
      [] path \in Dirs(fs) ->
           IF path \o <<"index.html">> \in fs
           THEN Routing(IF path = RootPath THEN "entry" ELSE "index",
                        path \o <<"index.html">>)
           ELSE Routing("forbidden", path)
      [] path \o <<"/">> \in Dirs(fs) -> Routing("redirect", path \o <<"/">>)
      [] IndexPath \in fs -> Routing("entry", IndexPath)
      [] OTHER -> Routing("error", path)

\* the server block: a path under location /api/ is proxied; the location's
\* prefix without its slash is redirected to it; location / serves files
NginxRoute(path, fs) ==
    IF LongestPrefix(path, NginxLocations) = NginxApiLocation
    THEN Routing("proxy", NginxUpstreamPath(path, NginxProxyUri))
    ELSE IF path \o <<"/">> = NginxApiLocation
    THEN Routing("redirect", NginxApiLocation)
    ELSE TryFiles(path, fs)

----------------------------------------------------------------------------
(* The development router: client/vite.config.js *)

\* server.port
VitePort == 3000

\* target: "http://localhost:4000"
ViteProxyPort == 4000

\* the key of the proxy rule: "/api"
ViteProxyContext == <<"/", "api">>

\* rewrite: (path) => path.replace(/^\/api/, '')
ViteRewriteStrip(path) ==
    IF StartsWith(path, ViteProxyContext)
    THEN DropFirst(path, Len(ViteProxyContext))
    ELSE path

\* the rule has no rewrite: the path is forwarded as it came
ViteRewrite(path) == path

\* the dev server: a URL that starts with the rule's key is proxied; else the
\* file at the path, or a directory's index.html, or the entry document
ViteRoute(path, fs) ==
    CASE StartsWith(path, ViteProxyContext) -> Routing("proxy", ViteRewrite(path))
      [] path \in fs -> Routing("static", path)
      [] path \in Dirs(fs) /\ path \o <<"index.html">> \in fs ->
           Routing(IF path = RootPath THEN "entry" ELSE "index",
                   path \o <<"index.html">>)
      [] OTHER -> Routing("entry", IndexPath)

----------------------------------------------------------------------------
(* Ports of localhost: docker-compose.yml, vite.config.js, server/index.js *)

\* client: ports "80:80", the host side
ComposeClientHostPort == 80

\* client: ports "80:80", the container side
ComposeClientContainerPort == 80

\* backend: ports "4000:4000", the host side
ComposeBackendHostPort == 4000

\* backend: ports "4000:4000", the container side
ComposeBackendContainerPort == 4000

\* both routers running on one machine, each on its port
ListenerBoth(ctx, port, lp) ==
    CASE port = VitePort -> "vite"
      [] port = ComposeClientHostPort -> "nginx"
      [] lp # 0 /\ port = lp -> "express"
      [] OTHER -> "none"

\* who answers on a port of localhost, lp being the API service's port (0 when
\* it does not listen): in development the Vite dev server and the API
\* service itself; under docker compose the ports the compose file publishes
Listener(ctx, port, lp) ==
    CASE ctx = "dev" /\ port = VitePort -> "vite"
      [] ctx = "dev" /\ lp # 0 /\ port = lp -> "express"
      [] ctx = "docker" /\ port = ComposeClientHostPort
           /\ ComposeClientContainerPort = NginxListen -> "nginx"
      [] ctx = "docker" /\ port = ComposeBackendHostPort
           /\ lp = ComposeBackendContainerPort -> "express"
      [] OTHER -> "none"

\* a router that forwards to whatever port the API service listens on
UpstreamPortFollowsService(via) == listenPort

\* the port a router forwards API requests to
UpstreamPort(via) == IF via = "nginx" THEN NginxProxyPort ELSE ViteProxyPort

\* a router that answers with the entry document when it cannot reach the
\* API service
GatewayFallback(via) == Response(200, "text/html", "", HtmlText)

\* the answer of a router that cannot reach the API service: nginx's 502 page,
\* the text of the Vite proxy's 500
GatewayError(via) ==
    IF via = "nginx" THEN Response(502, "text/html", "", HtmlText)
    ELSE Response(500, "text/plain", "", <<Raw("proxy error")>>)

\* the API service listens where the router forwards to
UpstreamUp(via, lp) == lp # 0 /\ lp = UpstreamPort(via)

\* the response a router gives for its routing of a request
RouterResponse(via, req, r, lp) ==
    CASE r.action = "proxy" ->
           IF UpstreamUp(via, lp)
           THEN App([req EXCEPT !.path = PathString(r.path)])
           ELSE GatewayError(via)
      [] r.action \in {"static", "index", "entry"} ->
           Response(200, "", "", FileBody(r.path))
      [] r.action = "redirect" -> Response(301, "text/html", "", HtmlText)
      [] r.action = "forbidden" -> Response(403, "text/html", "", HtmlText)
      [] OTHER -> Response(500, "text/html", "", HtmlText)

\* an exchange: who answered, what the router decided, whether the request
\* reached the API service, and the response
Exchange(via, port, path, routing, served, response) ==
    [via |-> via, port |-> port, path |-> path, routing |-> routing,
     served |-> served, res |-> response]

NoRouting == Routing("none", <<>>)

NoExchange ==
    Exchange("none", 0, <<>>, NoRouting, FALSE, Response(0, "", "", <<>>))

\* a request to a port of localhost: refused when nothing listens there,
\* routed by the router that listens there, or answered by the API service
\* when the port is its own
Ask(ctx, fs, lp, port, req) ==
    LET via == Listener(ctx, port, lp) IN
    CASE via = "nginx" ->
           LET r == NginxRoute(req.path, fs) IN
           Exchange(via, port, req.path, r,
                    r.action = "proxy" /\ UpstreamUp(via, lp),
                    RouterResponse(via, req, r, lp))
      [] via = "vite" ->
           LET r == ViteRoute(req.path, fs) IN
           Exchange(via, port, req.path, r,
                    r.action = "proxy" /\ UpstreamUp(via, lp),
                    RouterResponse(via, req, r, lp))
      [] via = "express" ->
           Exchange(via, port, req.path, NoRouting, TRUE,
                    App([req EXCEPT !.path = PathString(req.path)]))
      [] OTHER ->
           Exchange("none", port, req.path, NoRouting, FALSE,
                    Response(0, "", "", <<>>))

\* the port of the page's origin: the router of the context
OriginPort(ctx) == IF ctx = "docker" THEN ComposeClientHostPort ELSE VitePort

\* the API service has served nothing
ApiInit ==
    /\ responses = <<>>
    /\ inflight = <<>>

\* createRoot(...).render(<App />): the mount render is committed
ClientInit ==
    /\ message = JsString(Placeholder)
    /\ display = "Pending"
    /\ pc = "idle"
    /\ res = NoResponse
    /\ data = JsUndefined
    /\ err = ""
    /\ thrownBy = ""
    /\ effectPending = EffectRuns(TRUE)
    /\ dirty = FALSE
    /\ dom = RenderChild(JsString(Placeholder))
    /\ renders = 0
    /\ fetchCount = 0
    /\ setCount = 0
    /\ jsonCalled = FALSE

\* development, the API service not started, no request made
Init ==
    /\ ApiInit
    /\ ClientInit
    /\ context = "dev"
    /\ files = SourceFiles
    /\ portEnv = PortUnset
    /\ listenPort = 0
    /\ routed = NoExchange

\* either context, with any PORT and any static root of the context
DeployInit ==
    /\ ApiInit
    /\ ClientInit
    /\ context \in {"dev", "docker"}
    /\ files \in FileSets(context)
    /\ portEnv \in PortEnvs
    /\ listenPort = 0
    /\ routed = NoExchange

\* the effect of the committed render runs: fetch("/api/message") is issued
RunEffect ==
    /\ effectPending
    /\ dom.t = "text"
    /\ effectPending' = FALSE
    /\ fetchCount' = fetchCount + 1
    /\ pc' = "fetching"
    /\ UNCHANGED <<responses, message, display, res, data, err, thrownBy, dirty,
                   dom, renders, setCount, jsonCalled>>
    /\ UNCHANGED <<inflight, deployVars>>

\* the network call resolves with a response
FetchResolve(r) ==
    /\ pc = "fetching"
    /\ res' = r
    /\ pc' = "then1"
    /\ UNCHANGED <<responses, message, display, data, err, thrownBy,
                   effectPending, dirty, dom, renders, fetchCount, setCount,
                   jsonCalled>>
    /\ UNCHANGED <<inflight, deployVars>>

\* the network call rejects
FetchReject(e) ==
    /\ pc = "fetching"
    /\ Throw("fetch", e)
    /\ UNCHANGED <<responses, message, display, res, data, effectPending, dirty,
                   dom, renders, fetchCount, setCount, jsonCalled>>
    /\ UNCHANGED <<inflight, deployVars>>

\* the first .then: the status check, then res.json()
Then1 ==
    /\ pc = "then1"
    /\ IF ~ResOk(res)
       THEN /\ Throw("then1", HttpErrorMessage(res))
            /\ UNCHANGED jsonCalled
       ELSE /\ jsonCalled' = TRUE
            /\ pc' = "json"
            /\ UNCHANGED <<err, thrownBy>>
    /\ UNCHANGED <<responses, message, display, res, data, effectPending, dirty,
                   dom, renders, fetchCount, setCount>>
    /\ UNCHANGED <<inflight, deployVars>>

\* the promise of res.json() settles on the body read: with the parsed value,
\* or with a SyntaxError
JsonSettle ==
    /\ pc = "json"
    /\ LET parsed == JSONParse(res.body) IN
       IF parsed.ok
       THEN /\ data' = parsed.val
            /\ pc' = "then2"
            /\ UNCHANGED <<err, thrownBy>>
       ELSE /\ Throw("json", SyntaxErrorMessage(res.body))
            /\ UNCHANGED data
    /\ UNCHANGED <<responses, message, display, res, effectPending, dirty, dom,
                   renders, fetchCount, setCount, jsonCalled>>
    /\ UNCHANGED <<inflight, deployVars>>

\* the promise of res.json() rejects because the body could not be read
JsonReadFails(e) ==
    /\ pc = "json"
    /\ Throw("json", e)
    /\ UNCHANGED <<responses, message, display, res, data, effectPending, dirty,
                   dom, renders, fetchCount, setCount, jsonCalled>>
    /\ UNCHANGED <<inflight, deployVars>>

\* the second .then: setMessage(data.message); reading a property of null throws
Then2 ==
    /\ pc = "then2"
    /\ IF data.t \in {"null", "undefined"}
       THEN /\ Throw("then2", NullReadMessage)
            /\ UNCHANGED <<message, display, dirty, setCount>>
       ELSE /\ SetMessage(GetProperty(data, "message"), "Loaded")
            /\ pc' = "done"
            /\ UNCHANGED <<err, thrownBy>>
    /\ UNCHANGED <<responses, res, data, effectPending, dom, renders, fetchCount,
                   jsonCalled>>
    /\ UNCHANGED <<inflight, deployVars>>

\* the .catch: setMessage("Failed to fetch message: " + err.message)
Catch ==
    /\ pc = "catch"
    /\ SetMessage(JsString(FailPrefix \o err), "Failed")
    /\ pc' = "done"
    /\ UNCHANGED <<responses, res, data, err, thrownBy, effectPending, dom,
                   renders, fetchCount, jsonCalled>>
    /\ UNCHANGED <<inflight, deployVars>>

\* React renders App again after a state update and commits the result
Render ==
    /\ dirty
    /\ dom.t = "text"
    /\ renders < MaxRenders
    /\ dirty' = FALSE
    /\ renders' = renders + 1
    /\ dom' = RenderChild(message)
    /\ effectPending' = (dom'.t = "text" /\ EffectRuns(FALSE))
    /\ UNCHANGED <<responses, message, display, pc, res, data, err, thrownBy,
                   fetchCount, setCount, jsonCalled>>
    /\ UNCHANGED <<inflight, deployVars>>

----------------------------------------------------------------------------
(* Deployment: the API service's start, and requests to ports of localhost *)

\* the paths a browser asks for in the model
RouterPaths ==
    { RootPath, IndexPath,
      <<"/", "assets", "/", "index.js">>, <<"/", "assets">>, <<"/", "assets", "/">>,
      <<"/", "src", "/", "main.jsx">>,
      <<"/", "docs">>, <<"/", "docs", "/">>,
      <<"/", "about">>,
      <<"/", "api">>, <<"/", "api", "/">>, MessagePath,
      <<"/", "api", "/", "other">>, <<"/", "api", "ary">>,
      <<"/", "API", "/", "Message">> }

\* the ports of localhost a browser tries in the model
LocalPorts == {ComposeClientHostPort, VitePort, DefaultPort, 5000}

\* app.listen(PORT, "0.0.0.0", ...)
StartBackend ==
    /\ listenPort = 0
    /\ listenPort' = ConfiguredPort(portEnv)
    /\ UNCHANGED <<apiVars, clientVars, inflight, context, files, portEnv, routed>>

\* a browser asks a port of localhost for a path
Open(port, path) ==
    /\ routed' = Ask(context, files, listenPort, port, PathRequest("GET", path))
    /\ UNCHANGED <<apiVars, clientVars, inflight, context, files, portEnv, listenPort>>

----------------------------------------------------------------------------
(* The API service under concurrent requests: Node takes a request off the   *)
(* socket, express.json() waits for its body, and the rest of the chain runs *)
(* in one turn of the event loop when the body is in                          *)

\* the requests made at the same time in the model
ConcurrentRequests ==
    { WithBody("GET", "/api/message", "", o, NoBody) : o \in {"", "http://evil.example"} }
    \cup { WithBody("GET", "/api/message", "", "",
                    <<"application/json", TRUE, 2, <<Punct("{"), Punct("}")>>>>),
           WithBody("GET", "/api/message", "", "",
                    <<"application/json", TRUE, 1, <<Punct("{")>>>>),
           WithBody("POST", "/api/message", "", "", NoBody) }

\* s without its i-th element
RemoveAt(s, i) == SubSeq(s, 1, i - 1) \o SubSeq(s, i + 1, Len(s))

\* the server accepts a request while others are in flight
Accept(req) ==
    /\ Len(inflight) < MaxInflight
    /\ Len(responses) + Len(inflight) < MaxRequests
    /\ inflight' = Append(inflight, [req |-> req, stage |-> "accepted"])
    /\ UNCHANGED <<responses, clientVars, deployVars>>

\* express.json() has the body of a request in flight: it answers 400 or 413
\* itself, or calls next()
BodyParsed(i) ==
    /\ i \in DOMAIN inflight
    /\ inflight[i].stage = "accepted"
    /\ IF ExpressJson(inflight[i].req) = "next"
       THEN /\ inflight' = [inflight EXCEPT ![i].stage = "parsed"]
            /\ UNCHANGED responses
       ELSE /\ inflight' = RemoveAt(inflight, i)
            /\ responses' = Append(responses, [req |-> inflight[i].req,
                                               res |-> App(inflight[i].req)])
    /\ UNCHANGED <<clientVars, deployVars>>

\* cors(), the route and res.json() run for a request whose body is parsed,
\* and the response is written whole
Dispatch(i) ==
    /\ i \in DOMAIN inflight
    /\ inflight[i].stage = "parsed"
    /\ inflight' = RemoveAt(inflight, i)
    /\ responses' = Append(responses, [req |-> inflight[i].req,
                                       res |-> App(inflight[i].req)])
    /\ UNCHANGED <<clientVars, deployVars>>

----------------------------------------------------------------------------
(* The client behind the router of its context *)

\* the network call of the mounted client resolves with what the router of
\* the page's origin answers to GET /api/message
FetchViaRouter ==
    /\ pc = "fetching"
    /\ LET x == Ask(context, files, listenPort, OriginPort(context),
                    PathRequest("GET", MessagePath)) IN
       /\ routed' = x
       /\ res' = ClientResponse(x.res.status, x.res.body)
    /\ pc' = "then1"
    /\ UNCHANGED <<responses, message, display, data, err, thrownBy,
                   effectPending, dirty, dom, renders, fetchCount, setCount,
                   jsonCalled>>
    /\ UNCHANGED <<inflight, context, files, portEnv, listenPort>>

----------------------------------------------------------------------------
(* The client's unmount *)

\* the component is removed from the screen: the effect returns no cleanup
\* function, so nothing is cancelled; an effect that has not run yet never runs
Unmount ==
    /\ dom.t = "text"
    /\ dom' = [t |-> "unmounted", v |-> ""]
    /\ effectPending' = FALSE
    /\ dirty' = FALSE
    /\ UNCHANGED <<responses, message, display, pc, res, data, err, thrownBy,
                   renders, fetchCount, setCount, jsonCalled>>
    /\ UNCHANGED <<inflight, deployVars>>

----------------------------------------------------------------------------
(* The client in front of the API service *)

\* the network call resolves with what the API service answers to a request
FetchApi(req) ==
    /\ pc = "fetching"
    /\ Len(responses) < MaxRequests
    /\ responses' = Append(responses, [req |-> req, res |-> App(req)])
    /\ res' = ClientResponse(App(req).status, App(req).body)
    /\ pc' = "then1"
    /\ UNCHANGED <<message, display, data, err, thrownBy, effectPending, dirty,
                   dom, renders, fetchCount, setCount, jsonCalled>>
    /\ UNCHANGED <<inflight, deployVars>>

----------------------------------------------------------------------------
(* Specifications *)

ApiNext == \E req \in Requests : ApiHandle(req)

ClientNext ==
    \/ RunEffect
    \/ \E r \in ClientResponses : FetchResolve(r)
    \/ \E e \in NetworkErrors : FetchReject(e)
    \/ Then1
    \/ JsonSettle
    \/ \E e \in NetworkErrors : JsonReadFails(e)
    \/ Then2
    \/ Catch
    \/ Render


\* the API service alone
SpecApi == Init /\ [][ApiNext]_vars

\* one client alone
SpecClient == Init /\ [][ClientNext]_vars

ConcNext ==
    \/ \E req \in ConcurrentRequests : Accept(req)
    \/ \E i \in 1..MaxInflight : BodyParsed(i)
    \/ \E i \in 1..MaxInflight : Dispatch(i)

\* the API service with several requests in flight
SpecApiConc == Init /\ [][ConcNext]_vars

\* the body read of a response that arrived ends: with its text or a failure
JsonStep == JsonSettle \/ \E e \in NetworkErrors : JsonReadFails(e)

\* one client whose scheduled work runs: the effect after the mount, the
\* reactions of settled promises, the end of a body read that began, and the
\* render after a state change; the network call itself may never settle
SpecClientFair ==
    /\ Init
    /\ [][ClientNext]_vars
    /\ WF_vars(RunEffect)
    /\ WF_vars(Then1)
    /\ WF_vars(JsonStep)
    /\ WF_vars(Then2)
    /\ WF_vars(Catch)
    /\ WF_vars(Render)

UnmountNext == ClientNext \/ Unmount

\* one client that may be unmounted at any time
SpecClientUnmount == Init /\ [][UnmountNext]_vars

ClientApiNext ==
    \/ RunEffect
    \/ \E req \in Requests : FetchApi(req)
    \/ \E e \in NetworkErrors : FetchReject(e)
    \/ Then1
    \/ JsonStep
    \/ Then2
    \/ Catch
    \/ Render

\* one client whose responses are those the API service produces
SpecClientApi == Init /\ [][ClientApiNext]_vars

EndToEndNext ==
    \/ StartBackend
    \/ RunEffect
    \/ FetchViaRouter
    \/ Then1
    \/ JsonSettle
    \/ Then2
    \/ Catch
    \/ Render

\* the client, the router of its context and the API service, on a network
\* that delivers: an effect that is scheduled runs, a request is answered, a
\* settled promise runs its reaction, and a state change is rendered
SpecEndToEnd ==
    /\ DeployInit
    /\ [][EndToEndNext]_vars
    /\ WF_vars(RunEffect)
    /\ WF_vars(FetchViaRouter)
    /\ WF_vars(Then1)
    /\ WF_vars(JsonSettle)
    /\ WF_vars(Then2)
    /\ WF_vars(Catch)
    /\ WF_vars(Render)

RouterNext ==
    \/ StartBackend
    \/ \E port \in LocalPorts, path \in RouterPaths : Open(port, path)

\* the routers and the ports of localhost, in either context
SpecRouter == DeployInit /\ [][RouterNext]_vars

Next ==
    ApiNext \/ ClientNext \/ ConcNext \/ UnmountNext \/ ClientApiNext
        \/ EndToEndNext \/ RouterNext

Spec == Init /\ [][Next]_vars

----------------------------------------------------------------------------
(* Properties *)

\* the text of {"message":"Hello from chaicode server"}
PayloadText ==
    <<Punct("{"), Str("message"), Punct(":"), Str("Hello from chaicode server"),
      Punct("}")>>

IsGetMessage(req) == req.method = "GET" /\ req.path = "/api/message"

IsPayloadResponse(r) ==
    /\ r.status = 200
    /\ r.contentType = "application/json"
    /\ r.body = PayloadText

\* the request announces no body, or a body not declared application/json, or
\* an application/json body within 100kb that is empty or a well-formed object
BodyPassesJsonParser(req) ==
    \/ ~req.framed
    \/ req.contentType # "application/json"
    \/ /\ req.length <= 102400
       /\ \/ req.length = 0
          \/ req.body # <<>> /\ Head(req.body) = Punct("{") /\ JSONParse(req.body).ok

C2_PendingUntilSettled ==
    pc \in {"idle", "fetching"} =>
        /\ display = "Pending"
        /\ message = JsString("loading...")
        /\ dom = [t |-> "text", v |-> "loading..."]
        /\ setCount = 0

C2_Witness == pc = "fetching" /\ fetchCount = 1 /\ display = "Pending"

\* the body of the response arrived whole
BodyRead == ~(thrownBy = "json" /\ err \in NetworkErrors)

\* C3: a successful status with the body {"message":"Hello from chaicode
\* server"} ends in Loaded, and the text rendered is exactly that string
C3_LoadedShowsMessage ==
    (pc = "done" /\ res.status = 200 /\ res.body = PayloadText /\ BodyRead) =>
        /\ display = "Loaded"
        /\ message = JsString("Hello from chaicode server")
        /\ ~dirty => dom = [t |-> "text", v |-> "Hello from chaicode server"]

C3_Witness ==
    /\ pc = "done"
    /\ res.status = 200
    /\ res.body = PayloadText
    /\ display = "Loaded"
    /\ renders = 1
    /\ dom = [t |-> "text", v |-> "Hello from chaicode server"]

\* the fetch resolved with a response whose status is outside 200..299
NonSuccess == res # NoResponse /\ ~(res.status >= 200 /\ res.status <= 299)

\* C4: a non-success status, whatever the body, never gives Loaded and ends in
\* Failed; the body is not parsed and no data.message is stored
C4_NonSuccessFails ==
    NonSuccess =>
        /\ display # "Loaded"
        /\ ~jsonCalled
        /\ data = JsUndefined
        /\ pc \in {"then1", "catch", "done"}
        /\ pc = "done" => display = "Failed"

C4_Witness ==
    /\ pc = "done"
    /\ res.status = 500
    /\ res.body = PayloadText
    /\ display = "Failed"

\* C5: a rejected network call ends in Failed, and the text rendered is
\* "Failed to fetch message: " followed by the rejection's message
C5_NetworkFailureShown ==
    (thrownBy = "fetch" /\ pc = "done") =>
        /\ display = "Failed"
        /\ message = JsString("Failed to fetch message: " \o err)
        /\ err \in NetworkErrors
        /\ ~dirty => dom = [t |-> "text", v |-> "Failed to fetch message: " \o err]

C5_Witness ==
    /\ pc = "done"
    /\ thrownBy = "fetch"
    /\ renders = 1
    /\ dom = [t |-> "text", v |-> "Failed to fetch message: Failed to fetch"]

\* the fetch resolved with a successful status and a body that is no JSON
UnparseableSuccess ==
    /\ res.status >= 200 /\ res.status <= 299
    /\ res.body \in {<<Raw("<!DOCTYPE html>")>>, <<>>,
                     <<Punct("{"), Str("message"), Punct(":")>>}

\* C6: a successful status with an unparseable body never gives Loaded, is
\* never left without a next step before the chain ends, and ends in Failed
C6_UnparseableFails ==
    UnparseableSuccess =>
        /\ display # "Loaded"
        /\ pc \in {"then1", "json", "catch", "done"}
        /\ pc # "done" => ENABLED (Then1 \/ JsonSettle \/ Catch)
        /\ pc = "done" => display = "Failed" /\ thrownBy = "json"

C6_Witness ==
    /\ pc = "done"
    /\ res = ClientResponse(200, <<Raw("<!DOCTYPE html>")>>)
    /\ display = "Failed"
    /\ err = "Unexpected token in JSON"

\* C7 as stated: the message state is always a string, the text of Pending,
\* Loaded or Failed
C7_DisplayStateIsText ==
    /\ display \in {"Pending", "Loaded", "Failed"}
    /\ message.t = "string"

\* C8: one request per mount: none on a re-render and none as a retry, so at
\* most one request is outstanding and message is set at most once
C8_OneRequestPerMount ==
    /\ fetchCount <= 1
    /\ setCount <= 1
    /\ (pc = "idle") = (fetchCount = 0)
    /\ renders > 0 => ~effectPending
    /\ display # "Pending" => pc = "done"

C8_Witness ==
    /\ renders = 1
    /\ ~dirty
    /\ ~effectPending
    /\ pc = "done"
    /\ fetchCount = 1

\* C9: every failure of the request (network rejection, non-success status,
\* unparseable body, an exception while reading the parsed body) reaches the
\* one catch handler and ends as a Failed string; no rejection goes unhandled,
\* no second request is made and the component stays mounted
C9_EveryFailureCaught ==
    /\ pc # "unhandled"
    /\ thrownBy # "" =>
        /\ pc \in {"catch", "done"}
        /\ fetchCount = 1
        /\ dom.t = "text"
        /\ pc = "done" =>
            /\ display = "Failed"
            /\ message = JsString("Failed to fetch message: " \o err)

C9_Witness ==
    /\ pc = "done"
    /\ thrownBy = "then2"
    /\ data = JsNull
    /\ display = "Failed"
    /\ renders = 1

\* C10: identical GET /api/message requests get identical responses, whatever
\* was served before them
C10_IdenticalRequestsIdenticalPayloads ==
    \A i, j \in DOMAIN responses :
        (IsGetMessage(responses[i].req) /\ responses[i].req = responses[j].req) =>
            responses[i].res = responses[j].res

C10_Witness ==
    /\ Len(responses) >= 2
    /\ responses[1].req # responses[2].req
    /\ \E i, j \in DOMAIN responses :
         /\ i < j
         /\ responses[i].req = ClientRequest
         /\ responses[j].req = ClientRequest
         /\ responses[j].res.body = PayloadText

----------------------------------------------------------------------------
(* Properties of the routers *)

\* the exchange went through one of the two routers
Routed == routed.via \in {"nginx", "vite"}

\* the path is /api/<suffix>
UnderApiSlash(path) == StartsWith(path, <<"/", "api", "/">>)

\* the path is /api or lies under /api/
UnderApiPrefix(path) == path = <<"/", "api">> \/ UnderApiSlash(path)

\* C11: in both routers a request for /api/<suffix> is forwarded upstream as
\* /api/<suffix>, the prefix kept and the suffix unchanged, so that
\* /api/message is answered by the route /api/message when the request
\* reaches the API service
C11_ApiPrefixKept ==
    Routed /\ UnderApiSlash(routed.path) =>
        /\ routed.routing = Routing("proxy", routed.path)
        /\ routed.path = MessagePath /\ routed.served =>
             /\ routed.res.status = StatusOK
             /\ routed.res.body = PayloadText

C11_Witness ==
    /\ routed.via = "nginx"
    /\ routed.path = MessagePath
    /\ routed.routing = Routing("proxy", MessagePath)
    /\ routed.res.body = PayloadText

\* the path names a file or a directory of the static root
NamesFileOrDirectory(path, fs) ==
    \/ path \in fs
    \/ path \in Dirs(fs)
    \/ path \o <<"/">> \in Dirs(fs)

\* the response is the entry document
IsEntryDocument(r) == r.status = StatusOK /\ r.body = FileBody(IndexPath)

\* C12: the deployed router answers a path that is not under the API prefix
\* and names no file or directory of the static root with the entry document
\* index.html, never with a 404
C12_UnknownPathGetsEntryDocument ==
    /\ routed.via = "nginx"
    /\ ~UnderApiPrefix(routed.path)
    /\ ~NamesFileOrDirectory(routed.path, files)
    => /\ routed.routing = Routing("entry", IndexPath)
       /\ IsEntryDocument(routed.res)
       /\ routed.res.status # StatusNotFound

C12_Witness ==
    /\ routed.via = "nginx"
    /\ routed.path = <<"/", "about">>
    /\ IsEntryDocument(routed.res)

\* the three actions of the rule table, in priority order
ThreeActions(path, fs) ==
    IF UnderApiPrefix(path) THEN Routing("proxy", path)
    ELSE IF path \in fs THEN Routing("static", path)
    ELSE Routing("entry", IndexPath)

\* C13 as stated: the deployed router handles every path with exactly one of
\* forward, static asset, entry document, in that priority
C13_ThreeActionsForEveryPath ==
    routed.via = "nginx" => routed.routing = ThreeActions(routed.path, files)

\* C13: the deployed router forwards every path under /api/, whatever the
\* static root holds and although location / is written first; it redirects
\* /api to /api/; and of the other paths it serves a file that exists, gives a
\* directory its index.html, a 403 or a redirect to the path with a slash, and
\* gives every path that names neither the entry document
C13_PriorityOrder ==
    routed.via = "nginx" =>
        LET p == routed.path
            a == routed.routing.action IN
        /\ UnderApiSlash(p) => routed.routing = Routing("proxy", p)
        /\ p = <<"/", "api">> => a = "redirect"
        /\ ~UnderApiPrefix(p) /\ p \in files => routed.routing = Routing("static", p)
        /\ ~UnderApiPrefix(p) /\ p \notin files /\ NamesFileOrDirectory(p, files) =>
             a \in {"index", "forbidden", "redirect", "entry"}
        /\ ~UnderApiPrefix(p) /\ ~NamesFileOrDirectory(p, files) =>
             routed.routing = Routing("entry", IndexPath)
        /\ a = "proxy" <=> UnderApiSlash(p)

C13_Witness ==
    /\ routed.via = "nginx"
    /\ routed.path = MessagePath
    /\ MessagePath \in files
    /\ routed.routing.action = "proxy"

\* C16: once started, the API service listens on the port PORT names when it
\* is set, and on 4000 when it is not; a request to the service itself is
\* answered on that port only
C16_ListensOnConfiguredPort ==
    listenPort # 0 =>
        /\ portEnv = PortSet("5000") => listenPort = 5000
        /\ portEnv = PortSet("4000") => listenPort = 4000
        /\ ~portEnv.set => listenPort = 4000
        /\ context = "dev" /\ routed.via = "express" => routed.port = listenPort

C16_Witness ==
    /\ portEnv = PortSet("5000")
    /\ listenPort = 5000
    /\ routed.via = "express"
    /\ routed.port = 5000
    /\ routed.res.body = PayloadText

\* the routers
Routers == {"nginx", "vite"}

\* the router of a context
RouterOf(ctx) == IF ctx = "dev" THEN "vite" ELSE "nginx"

AppReachableAt(port) ==
    routed.port = port /\ routed.path = RootPath => IsEntryDocument(routed.res)

\* C19: after docker-compose up the application is reachable in the browser
\* at http://localhost:3000
C19_DockerReachableAt3000 ==
    context = "docker" => AppReachableAt(3000)

----------------------------------------------------------------------------
(* Properties of the API service's routing *)

\* C17 as stated: a request with another path than /api/message, or with
\* another verb than GET, never receives the 200 Message Payload response
C17_OnlyGetMessageGetsPayload ==
    \A i \in DOMAIN responses :
        ~IsGetMessage(responses[i].req) => ~IsPayloadResponse(responses[i].res)

\* the paths the route /api/message matches among those of the model
MessageRoutePaths == {"/api/message", "/api/message/", "/API/Message"}

\* C17: only a GET whose path is /api/message, that path with one trailing
\* slash, or that path in other letter case receives the 200 Message Payload
\* response; a 200 goes to no verb but GET and HEAD, on those paths, and the
\* one to HEAD has no body
C17_PayloadOnlyOnMessageRoute ==
    \A i \in DOMAIN responses :
        LET req == responses[i].req
            r == responses[i].res IN
        /\ IsPayloadResponse(r) =>
             req.method = "GET" /\ req.path \in MessageRoutePaths
        /\ r.status = StatusOK =>
             /\ req.method \in {"GET", "HEAD"}
             /\ req.path \in MessageRoutePaths
             /\ req.method = "HEAD" => r.body = <<>>

C17_Witness ==
    /\ \E i \in DOMAIN responses :
         /\ responses[i].req.method = "GET"
         /\ responses[i].req.path = "/api/message/"
         /\ IsPayloadResponse(responses[i].res)
    /\ \E i \in DOMAIN responses :
         /\ responses[i].req.method = "POST"
         /\ responses[i].req.path = "/api/message"
         /\ responses[i].res.status = StatusNotFound
    /\ \E i \in DOMAIN responses :
         /\ responses[i].req.method = "HEAD"
         /\ responses[i].res.status = StatusOK

----------------------------------------------------------------------------
(* Properties of the client's Loaded transition *)

\* the value is an object with a property named message
HasMessageField(x) ==
    x.t = "object" /\ \E i \in DOMAIN x.v : x.v[i].key = "message"

\* C20: the Display State becomes Loaded only if the response had a successful
\* status and a parseable JSON body that contains a message field; a
\* successful response with the body {} does not produce Loaded
C20_LoadedOnlyWithMessageField ==
    display = "Loaded" =>
        /\ ResOk(res)
        /\ JSONParse(res.body).ok
        /\ HasMessageField(JSONParse(res.body).val)

----------------------------------------------------------------------------
(* Properties of the API service under concurrent requests *)

----------------------------------------------------------------------------
(* Properties of the client behind its router *)

\* the API service listens where the router of the context forwards to
ServiceRuns == UpstreamUp(RouterOf(context), listenPort)

\* the page shows the greeting, fetched through the router of the context
\* with the path /api/message
ShowsGreeting ==
    /\ display = "Loaded"
    /\ dom = [t |-> "text", v |-> Greeting]
    /\ routed.via = RouterOf(context)
    /\ routed.path = MessagePath

\* C14: with the API service running where the router of the context forwards
\* to, a client that mounts eventually shows "Hello from chaicode server" in
\* the Loaded state, in development and under docker compose alike, having
\* asked its router for the same path /api/message
C14_MountEndsLoaded ==
    (pc = "idle" /\ ServiceRuns) ~> ShowsGreeting

C14_Witness ==
    /\ context = "dev"
    /\ ShowsGreeting
    /\ routed.res.status = StatusOK
    /\ pc = "done"

----------------------------------------------------------------------------
(* Properties of the client's terminal states *)

\* C21: Loaded and Failed are absorbing: once the Display State has left
\* Pending no step of the mounted component changes it or the message again,
\* also when the second .then throws after the status check
C21_TerminalStatesAbsorbing ==
    [][display # "Pending" => display' = display /\ message' = message]_vars

\* the second .then threw on a null body after a successful status, the
\* .catch made the state Failed, and the render has run
C21_Witness ==
    /\ pc = "done"
    /\ ResOk(res)
    /\ thrownBy = "then2"
    /\ display = "Failed"
    /\ renders = 1
    /\ setCount = 1

\* the network call has settled: the fetch resolved or rejected
CallSettled == pc \notin {"idle", "fetching"}

----------------------------------------------------------------------------
(* Properties of the client's unmount *)

\* the component is gone
Unmounted == dom.t = "unmounted"

\* C23: the request is never cancelled: after an unmount the outstanding call
\* can still settle and its chain runs on, and no step taken after the unmount
\* changes the Display State, the message or what is on the screen, or
\* issues a request
C23_UnmountCancelsNothing ==
    /\ [](Unmounted /\ pc = "fetching" =>
            ENABLED (\E r \in ClientResponses : FetchResolve(r)))
    /\ [](Unmounted /\ pc \in {"then1", "json", "then2", "catch"} =>
            ENABLED (Then1 \/ JsonSettle \/ Then2 \/ Catch))
    /\ [][Unmounted =>
            /\ display' = display
            /\ message' = message
            /\ dom' = dom
            /\ fetchCount' = fetchCount]_vars

\* the component was unmounted with its request outstanding; the call then
\* resolved and the chain ran to its setMessage, which left the state Pending
C23_Witness ==
    /\ Unmounted
    /\ pc = "done"
    /\ ResOk(res)
    /\ fetchCount = 1
    /\ setCount = 1
    /\ display = "Pending"
    /\ message = JsString(Placeholder)

----------------------------------------------------------------------------
(* Properties of the client behind a router without its API service *)

\* the router of the context answered the client's request itself, for want
\* of an API service where it forwards to
GatewayAnswered == Routed /\ routed.routing.action = "proxy" /\ ~routed.served

\* the text of Failed for a response's status
StatusFailure(r) == FailPrefix \o "HTTP error! status: " \o ToString(r.status)

\* C24: when the router cannot reach the API service the client's request
\* gets the router's gateway error, a non-success status: the Display State
\* never is Loaded, and it becomes Failed with the "Failed to fetch message"
\* text, which is rendered
C24_GatewayErrorFails ==
    /\ [](GatewayAnswered =>
            /\ ~ResOk(res)
            /\ display # "Loaded"
            /\ pc = "done" =>
                 /\ display = "Failed"
                 /\ message = JsString(StatusFailure(res)))
    /\ GatewayAnswered ~>
          /\ display = "Failed"
          /\ dom = [t |-> "text", v |-> StatusFailure(res)]

C24_Witness ==
    /\ context = "docker"
    /\ listenPort = 0
    /\ GatewayAnswered
    /\ res.status = 502
    /\ pc = "done"
    /\ display = "Failed"
    /\ dom = [t |-> "text", v |-> "Failed to fetch message: HTTP error! status: 502"]

----------------------------------------------------------------------------
(* Properties of the two rule tables *)

\* the action of the rule table a routing stands for: forward, static asset,
\* entry document, or an answer the table does not have
Classify(r) ==
    CASE r.action = "proxy" -> "forward"
      [] r.action \in {"static", "index"} -> "static"
      [] r.action = "entry" -> "entry"
      [] OTHER -> r.action

\* C25: the development rule table and the deployed rule table pick the same
\* action for every path over the same static root, /api and /apiary among
\* them
C25_SameClassification ==
    Routed =>
        Classify(NginxRoute(routed.path, files))
            = Classify(ViteRoute(routed.path, files))

----------------------------------------------------------------------------
(* Properties of the client's texts *)

\* the decimal text of the statuses of the model
StatusText(n) ==
    CASE n = 404 -> "404"
      [] n = 500 -> "500"
      [] n = 502 -> "502"
      [] OTHER -> "?"

FailedTexts ==
    { FailPrefix \o e :
        e \in NetworkErrors
              \cup {NullReadMessage, "Unexpected end of JSON input",
                    "Unexpected token in JSON"}
              \cup { "HTTP error! status: " \o n : n \in {"400", "404", "413"} } }

\* C27: the rendered string identifies the Display State: for every response
\* the API service produces the text of Loaded is a string other than the
\* placeholder "loading..." and than every text of Failed, and the committed
\* screen shows the placeholder exactly in Pending and a text of Failed
\* exactly in Failed
C27_RenderedTextIdentifiesState ==
    /\ display = "Loaded" =>
         /\ message.t = "string"
         /\ message.v # "loading..."
         /\ message.v \notin FailedTexts
    /\ display = "Failed" => message.v \in FailedTexts
    /\ ~dirty =>
         /\ dom.t = "text"
         /\ (dom.v = "loading...") = (display = "Pending")
         /\ (dom.v \in FailedTexts) = (display = "Failed")

C27_Witness ==
    /\ display = "Loaded"
    /\ ~dirty
    /\ renders = 1
    /\ dom = [t |-> "text", v |-> "Hello from chaicode server"]
    /\ responses # <<>>
    /\ responses[1].req.origin = "http://evil.example"

----------------------------------------------------------------------------
(* Properties of the deployed router's upstream port *)

\* C28: under docker compose the router forwards API requests to port 4000 of
\* the backend whatever PORT is: a request reaches the API service, and the
\* client reaches Loaded, only when the service listens on 4000; with
\* PORT=5000 the client ends in Failed
C28_DeployedUpstreamIsPort4000 ==
    /\ [](context = "docker" =>
            /\ routed.served => listenPort = 4000
            /\ display = "Loaded" => routed.served /\ listenPort = 4000
            /\ portEnv = PortSet("5000") /\ pc = "done" => display = "Failed")
    /\ (context = "docker" /\ portEnv = PortSet("5000") /\ pc = "fetching")
           ~> (display = "Failed")

C28_Witness ==
    /\ context = "docker"
    /\ portEnv = PortSet("5000")
    /\ listenPort = 5000
    /\ routed.via = "nginx"
    /\ res.status = 502
    /\ pc = "done"
    /\ display = "Failed"

----------------------------------------------------------------------------
(* Properties of the payload's independence of the request *)

\* two requests carry the same body bytes
SameBody(a, b) == a.framed = b.framed /\ a.length = b.length /\ a.body = b.body

====
